---- MODULE Spec2Model ----
(***************************************************************************)
(* Model of the Intercom Canvas <-> Freshdesk bridge server               *)
(* (src/README.md holds the Express server, src/conversation-helper.js    *)
(* the transcript / ticket helpers).                                       *)
(*                                                                         *)
(* One step of the model is one run-to-completion segment of the Node     *)
(* event loop: the code between two suspension points (await, timer).     *)
(* Strings that the code inspects (trim, emptiness) are sequences of      *)
(* one-character strings; messages the code only copies are TLA+ strings. *)
(***************************************************************************)
EXTENDS Integers, Sequences, FiniteSets, TLC

\* ------------------------------------------------------------------------
\* Bounds and program constants
\* ------------------------------------------------------------------------
MaxTickets == 6          \* largest number of tickets the upstream list returns

PageSize == 5            \* tickets revealed per page

MaxEvents == 2           \* inbound /api/submit events in a behaviour, one after the other

MaxLoads == 5            \* inbound events in a behaviour of the list-browsing requests

MaxMergeEvents == 3      \* inbound events in a behaviour of the select / merge requests

Events == {"e1"}         \* request slots: a new event arrives once the last one is settled

Slots == {"e1", "e2"}    \* request slots of the behaviours with two events in flight

FetchCap == 20           \* per_page of the list fetch behind a cursor

Retries == 3             \* fetchWithRetry: retries = 3

InitialDelay == 500      \* fetchWithRetry: initialDelay = 500 (ms)

DelayCap == 10000        \* Math.min(currentDelay * 2, 10000)

\* what one axios call of fetchWithRetry ends in: a 2xx response, a 5xx or a
\* 4xx response (axios rejects), no response within the 10000 ms timeout
Outcomes == {"ok", "503", "404", "timeout"}

\* 0.8 + Math.random() * 0.4, in tenths
JitterTenths == {8, 10, 11}

EmailA == <<"a", "@", "x">>

EmailB == <<"b", "@", "y">>

Malformed == <<"a">>

Empty == <<>>

ContactEmails == {Empty, EmailA}

SessionEmails == {Empty, EmailA, EmailB}

FormEmails == {Empty, <<" ">>, Malformed, <<" ">> \o EmailA, EmailB}

Subjects == {Empty, <<" ">>, <<" ", "s">>}

Descriptions == {Empty, <<"d">>}

Bodies == {Empty, <<"b">>}

Conversations == {"absent", "c1"}

TicketCounts == {0, 1, PageSize, MaxTickets, FetchCap}

TrackerKeys == {EmailA, EmailB, Malformed}

SubmitRequests ==
  {r \in [component_id : {"submit_ticket_button"}, contactEmail : ContactEmails,
          email : FormEmails, subject : Subjects, description : Descriptions,
          conversation : Conversations, sourceBody : Bodies] :
     r.sourceBody # Empty => r.conversation = "c1"}

SelectIds == {"select_ticket_1", "select_ticket_2", "select_ticket_"}

\* component_id.replace('select_ticket_', ''): the text after the prefix, empty
\* when the id is the bare prefix
TicketOf(id) ==
  CASE id = "select_ticket_1" -> "1"
    [] id = "select_ticket_2" -> "2"
    [] OTHER -> ""

\* !ticketId of the merge_ticket branch: undefined (never selected) and the
\* empty string are both falsy; a missing conversation id has thrown before
MissingIds_Ignored(ticketId) == FALSE
MissingIds(ticketId) == ticketId \in {"none", ""}

\* component_id values no branch of the handler tests for; "undefined" is a
\* request body without component_id
UnknownIds == {"unknown", "undefined"}

PlainIds ==
  {"create_ticket", "add_to_existing_ticket", "merge_ticket", "cancel_merge",
   "back_to_home", "load_more_tickets", "load_more_home_tickets", "cancel",
   "refresh_status", "retry_button"} \cup UnknownIds \cup SelectIds

PlainRequests ==
  [component_id : PlainIds, contactEmail : ContactEmails,
   email : {Empty}, subject : {Empty}, description : {Empty},
   conversation : Conversations, sourceBody : {Empty}]

Requests == SubmitRequests \cup PlainRequests

NoReq ==
  [component_id |-> "none", contactEmail |-> Empty, email |-> Empty,
   subject |-> Empty, description |-> Empty, conversation |-> "absent",
   sourceBody |-> Empty]

\* ------------------------------------------------------------------------
\* State
\* ------------------------------------------------------------------------
VARIABLES
  req,             \* req.body of each event
  pc,              \* suspension point of each event's route handler
  loc,             \* handler locals that live across an await
  responseSent,    \* the per-request latch
  timer,           \* the 9000 ms timeout of each event
  timerFiredFirst, \* history: the timeout ran while no reply had been written
  timerCalls,      \* upstream calls issued by the timeout callback
  replies,         \* HTTP replies written on res, in order
  bg,              \* position of the background ticket-creation task
  log,             \* effects of the handler and its background task, in order
  ticketTracker,   \* Map email -> marker
  intercomContext, \* app.locals.intercomContext
  homePageState,   \* app.locals.homePageState
  mergePageState,  \* app.locals.mergePageState
  selectedTicketId,\* app.locals.selectedTicketId
  arrivals,        \* number of events received so far
  loads,           \* history: startIndex of each load-more of an unbroken run on one cursor
  fw,              \* one call of fetchWithRetry: its locals, attempts made, delays waited
  canvas,          \* each POST /api/initialize: its position, its email, its reply
  chosen,          \* history: the ticket each session selected last
  download         \* one call of downloadFile: its URL, the attempts made, its result

vars == <<req, pc, loc, responseSent, timer, timerFiredFirst, timerCalls,
          replies, bg, log, ticketTracker, intercomContext, homePageState,
          mergePageState, selectedTicketId, arrivals, loads, fw, canvas, chosen, download>>

\* ------------------------------------------------------------------------
\* String helpers
\* ------------------------------------------------------------------------
RECURSIVE TrimStart(_)
TrimStart(s) ==
  IF s # <<>> /\ Head(s) = " " THEN TrimStart(Tail(s)) ELSE s

RECURSIVE TrimEnd(_)
TrimEnd(s) ==
  IF s # <<>> /\ s[Len(s)] = " " THEN TrimEnd(SubSeq(s, 1, Len(s) - 1)) ELSE s

Trim_NoOp(s) == s

Trim(s) == TrimEnd(TrimStart(s))

\* JavaScript a || b on strings
Or(a, b) == IF a # <<>> THEN a ELSE b

\* !v || v.trim() === ''
IsBlank(v) == v = <<>> \/ Trim(v) = <<>>

\* ------------------------------------------------------------------------
\* Markers, contexts, panels
\* ------------------------------------------------------------------------
NoMarker == [present |-> FALSE, inProgress |-> FALSE, result |-> "none"]

PendingMarker == [present |-> TRUE, inProgress |-> TRUE, result |-> "none"]

DoneMarker == [present |-> TRUE, inProgress |-> FALSE, result |-> "ticketId"]

FailedMarker == [present |-> TRUE, inProgress |-> FALSE, result |-> "error"]

\* defaultTitle and defaultDescription of the context are never read by /api/submit
NoContext == [set |-> FALSE, customerEmail |-> Empty]

\* allTickets is the number of tickets held; fetchedFor is the email of the
\* list call they came from
NoPageState ==
  [set |-> FALSE, customerEmail |-> Empty, currentOffset |-> 0,
   allTickets |-> 0, hasMore |-> FALSE, fetchedFor |-> Empty]

\* { customerEmail, currentOffset: 0, allTickets: [], hasMore: true }
PlaceholderState(customerEmail) ==
  [set |-> TRUE, customerEmail |-> customerEmail, currentOffset |-> 0,
   allTickets |-> 0, hasMore |-> TRUE, fetchedFor |-> Empty]

\* { customerEmail, currentOffset: 5, allTickets, hasMore: allTickets.length > 5 }
FetchedState(customerEmail, n) ==
  [set |-> TRUE, customerEmail |-> customerEmail, currentOffset |-> PageSize,
   allTickets |-> n, hasMore |-> n > PageSize, fetchedFor |-> customerEmail]

NoDownload ==
  [state |-> "idle", url |-> <<>>, filename |-> "none", tried |-> <<>>,
   outcomes |-> <<>>, result |-> "none"]

NoCanvas == [state |-> "idle", customerEmail |-> Empty, reply |-> <<>>]

NoLoc ==
  [statusChoices |-> FALSE, priorityChoices |-> FALSE, priorityField |-> FALSE,
   customerEmail |-> Empty, ticketId |-> "none"]

Min(a, b) == IF a < b THEN a ELSE b

NoLoads == [cursor |-> "none", startIndex |-> <<>>]

NoFetch ==
  [state |-> "idle", attempts |-> 0, currentDelay |-> 0, tried |-> <<>>,
   delays |-> <<>>, error |-> "none"]

\* buildRecentTicketsComponent(tickets, showLoadMore) under the home buttons
HomePanel(list, shown, showLoadMore) ==
  [kind |-> "home", list |-> list, shown |-> shown,
   loadMore |-> (shown > 0 /\ showLoadMore)]

\* the homepage the timeout callback builds (create button, divider, tickets)
TimeoutPanel(shown) == [kind |-> "timeout_home", shown |-> shown]

\* the fixed "Create a Freshdesk Ticket / No recent tickets" panel
DefaultPanel == [kind |-> "default_home"]

SchemaErrorPanel == [kind |-> "schema_error", retry |-> "retry_button"]

NoEmailPanel == [kind |-> "no_customer_email"]

ListErrorPanel == [kind |-> "list_error"]

SessionExpiredPanel == [kind |-> "session_expired"]

\* the outer catch: "An error occurred: ..." with a reload button
ExceptionPanel == [kind |-> "exception"]

MissingIdPanel == [kind |-> "missing_ticket_or_conversation"]

ConfirmPanel(ticketId) == [kind |-> "confirm_merge", ticketId |-> ticketId]

\* "Select a ticket to merge this conversation into:" or "No existing tickets found"
MergeListPanel(shown, hasMore) == [kind |-> "merge_list", shown |-> shown, loadMore |-> hasMore]

NoTicketsPanel == [kind |-> "no_existing_tickets"]

GenericErrorPanel == [kind |-> "generic_error", text |-> "Please fill in all required fields"]

CreateFormPanel(customerEmail, l) ==
  [kind |-> "create_form", emailValue |-> customerEmail,
   status |-> l.statusChoices, priority |-> l.priorityChoices,
   emailError |-> IF customerEmail # Empty THEN "" ELSE "Email is required"]

ErrorFormSubjectValue_Trimmed(subject, isSubjectEmpty) ==
  IF isSubjectEmpty THEN Empty ELSE Trim(subject)

ErrorFormSubjectValue(subject, isSubjectEmpty) ==
  IF isSubjectEmpty THEN Empty ELSE subject

ErrorForm(r, l) ==
  LET isEmailEmpty == IsBlank(r.email)
      isSubjectEmpty == IsBlank(r.subject)
  IN [kind |-> "error_form",
      banner |-> IF isEmailEmpty /\ isSubjectEmpty THEN "Email and Subject are required"
                 ELSE IF isEmailEmpty THEN "Email is required"
                 ELSE "Subject is required",
      emailValue |-> IF isEmailEmpty THEN Empty ELSE r.email,
      emailError |-> IF isEmailEmpty THEN "Email is required" ELSE "undefined",
      subjectValue |-> ErrorFormSubjectValue(r.subject, isSubjectEmpty),
      subjectError |-> IF isSubjectEmpty THEN "Subject is required" ELSE "undefined",
      descriptionValue |-> Or(r.description, <<"C", "T", "A">>),
      status |-> l.statusChoices, priority |-> l.priorityChoices,
      validation_errors |->
        [email |-> IF isEmailEmpty THEN "Email is required" ELSE "undefined",
         subject |-> IF isSubjectEmpty THEN "Subject is required" ELSE "undefined"]]

\* the "should never be reached" second check of submit_ticket_button
RecheckForm(r) ==
  [kind |-> "recheck_form", emailValue |-> Empty, emailError |-> "Email is required",
   subjectValue |-> Trim(r.subject),
   validation_errors |-> [email |-> "Email is required", subject |-> "undefined"]]

\* let description = inputValues.description || defaultDescription || ''
Description(r) == Or(r.description, r.sourceBody)

\* which exit of the submit_ticket_button validation a request takes
SubmitBranch(r) ==
  IF IsBlank(r.email) \/ IsBlank(r.subject) THEN "validation"
  ELSE IF Trim(r.email) = Empty \/ Trim(r.subject) = Empty THEN "recheck"
  ELSE IF Trim(r.subject) = Empty \/ Description(r) = Empty THEN "generic"
  ELSE "accepted"

\* req.body.contact?.email || req.body.customer?.email || app.locals.intercomContext?.customerEmail
CallerEmail(r, ctx) == Or(r.contactEmail, ctx.customerEmail)

\* ------------------------------------------------------------------------
\* The reply channel of one event: res, responseSent, timeoutId
\* ------------------------------------------------------------------------
Chan(e) == [replies |-> replies[e], responseSent |-> responseSent[e], timer |-> timer[e]]

FreshChan == [replies |-> <<>>, responseSent |-> FALSE, timer |-> "armed"]

\* const sendResponse = (responseData) => { ... }
SendResponse(c, panel) ==
  IF ~c.responseSent
  THEN [replies |-> Append(c.replies, [by |-> "sendResponse", code |-> 200, panel |-> panel]),
        responseSent |-> TRUE,
        timer |-> IF c.timer = "armed" THEN "cleared" ELSE c.timer]
  ELSE c

\* return res.json(...) / return res.status(500).json(...)
DirectReply(c, code, panel) ==
  [c EXCEPT !.replies = Append(@, [by |-> "direct", code |-> code, panel |-> panel])]

DefaultReply_Error(c) == DirectReply(c, 200, ExceptionPanel)

\* the final else: return res.json({the default fallback panel})
DefaultReply(c) == DirectReply(c, 200, DefaultPanel)

SchemaErrorReply_Latched(c) == SendResponse(c, SchemaErrorPanel)

\* create_ticket, catch of the schema fetch: return res.status(500).json({... retry_button ...})
SchemaErrorReply(c) == DirectReply(c, 500, SchemaErrorPanel)

SetChan(e, c) ==
  /\ replies' = [replies EXCEPT ![e] = c.replies]
  /\ responseSent' = [responseSent EXCEPT ![e] = c.responseSent]
  /\ timer' = [timer EXCEPT ![e] = c.timer]

\* log entries of a sendResponse call
ReplyLog(c) == IF c.responseSent THEN <<"reply_attempt">> ELSE <<"reply_attempt", "reply">>

\* ------------------------------------------------------------------------
Init ==
  /\ req = [e \in Slots |-> NoReq]
  /\ pc = [e \in Slots |-> "idle"]
  /\ loc = [e \in Slots |-> NoLoc]
  /\ responseSent = [e \in Slots |-> FALSE]
  /\ timer = [e \in Slots |-> "unset"]
  /\ timerFiredFirst = [e \in Slots |-> FALSE]
  /\ timerCalls = [e \in Slots |-> 0]
  /\ replies = [e \in Slots |-> <<>>]
  /\ bg = [e \in Slots |-> "none"]
  /\ log = [e \in Slots |-> <<>>]
  /\ ticketTracker = [k \in TrackerKeys |-> NoMarker]
  /\ intercomContext = NoContext
  /\ homePageState = NoPageState
  /\ mergePageState = NoPageState
  /\ selectedTicketId = "none"
  /\ arrivals = 0
  /\ loads = NoLoads
  /\ fw = NoFetch
  /\ canvas = [i \in Slots |-> NoCanvas]
  /\ chosen = [s \in SessionEmails |-> "none"]
  /\ download = NoDownload

\* ------------------------------------------------------------------------
\* app.post('/api/submit'): the synchronous prefix of the route handler
\* ------------------------------------------------------------------------
Finish(e, c, l, entries) ==
  /\ SetChan(e, c)
  /\ pc' = [pc EXCEPT ![e] = "done"]
  /\ loc' = [loc EXCEPT ![e] = [NoLoc EXCEPT !.ticketId = l.ticketId]]
  /\ log' = [log EXCEPT ![e] = @ \o entries]

Suspend(e, c, l, at) ==
  /\ SetChan(e, c)
  /\ pc' = [pc EXCEPT ![e] = at]
  /\ loc' = [loc EXCEPT ![e] = l]
  /\ log' = log

\* app.locals.homePageState && app.locals.homePageState.customerEmail === customerEmail
CachedHome(customerEmail) ==
  homePageState.set /\ homePageState.customerEmail = customerEmail

\* allTickets.slice(0, currentOffset) rendered with hasMore
CachedHomePanel ==
  HomePanel(TRUE, Min(homePageState.allTickets, homePageState.currentOffset),
            homePageState.hasMore)

Advance_NoClamp(st) ==
  [st EXCEPT !.currentOffset = st.currentOffset + PageSize,
             !.hasMore = st.currentOffset + PageSize < st.allTickets]

Advance_Truncate(st) ==
  LET endIndex == Min(st.currentOffset + PageSize, st.allTickets)
  IN [st EXCEPT !.currentOffset = endIndex, !.allTickets = endIndex, !.hasMore = FALSE]

\* the offset update of load_more_tickets / load_more_home_tickets
Advance(st) ==
  LET endIndex == Min(st.currentOffset + PageSize, st.allTickets)
  IN [st EXCEPT !.currentOffset = endIndex, !.hasMore = endIndex < st.allTickets]

\* the handler runs from its first line to its first await (at) or to its end ("done")
Start(e, c, l, at, entries) ==
  /\ SetChan(e, c)
  /\ pc' = [pc EXCEPT ![e] = at]
  /\ loc' = [loc EXCEPT ![e] = IF at = "done" THEN [NoLoc EXCEPT !.ticketId = l.ticketId] ELSE l]
  /\ log' = [log EXCEPT ![e] = entries]

Replied(e, panel, l) ==
  Start(e, SendResponse(FreshChan, panel), l, "done", ReplyLog(FreshChan))

Awaiting(e, l, at) == Start(e, FreshChan, l, at, <<>>)

ArriveFrame(e) ==
  /\ bg' = [bg EXCEPT ![e] = "none"]
  /\ loads' = NoLoads
  /\ UNCHANGED <<homePageState, mergePageState, selectedTicketId>>

\* const startIndex = state.currentOffset, kept for each load-more of a run
Loaded(cursor, st) ==
  [cursor |-> cursor,
   startIndex |-> (IF loads.cursor = cursor THEN loads.startIndex ELSE <<>>)
                    \o <<st.currentOffset>>]

\* nothing of the event is pending: handler ended, timeout cleared or run, task ended
Settled(e) ==
  /\ pc[e] = "done"
  /\ timer[e] \in {"cleared", "done"}
  /\ bg[e] \in {"none", "done"}

\* cancel_merge / back_to_home, and the UI response of merge_ticket
BackHome(e, customerEmail, l) ==
  IF customerEmail = Empty
  THEN Replied(e, HomePanel(FALSE, 0, FALSE), l)
  ELSE IF CachedHome(customerEmail)
  THEN Replied(e, CachedHomePanel, l)
  ELSE Awaiting(e, [l EXCEPT !.customerEmail = customerEmail], "h_recent")

CursorMissing_Never(st) == FALSE

\* if (!mergeState) / if (!homeState)
CursorMissing(st) == ~st.set

\* the route handler from its first line to its first await or its end
Serve(e, r) ==
  /\ pc[e] = "idle" \/ Settled(e)
  /\ arrivals' = arrivals + 1
  /\ timerFiredFirst' = [timerFiredFirst EXCEPT ![e] = FALSE]
  /\ timerCalls' = [timerCalls EXCEPT ![e] = 0]
  /\ req' = [req EXCEPT ![e] = r]
  /\ fw' = fw
  /\ canvas' = canvas
  /\ download' = download
  /\ chosen' = IF r.component_id \in SelectIds
               THEN [chosen EXCEPT ![r.contactEmail] = TicketOf(r.component_id)]
               ELSE chosen
  /\ intercomContext' = [set |-> TRUE, customerEmail |-> r.contactEmail]
  /\ UNCHANGED ticketTracker
  /\ CASE r.component_id = "create_ticket" ->
            /\ Awaiting(e, NoLoc, "mailboxes")
            /\ ArriveFrame(e)
       [] r.component_id = "add_to_existing_ticket" ->
            \* app.locals.intercomContext?.customerEmail || req.body.customer?.email
            IF r.contactEmail = Empty
            THEN /\ Replied(e, NoEmailPanel, NoLoc)
                 /\ ArriveFrame(e)
            ELSE /\ mergePageState' = PlaceholderState(r.contactEmail)
                 /\ Awaiting(e, [NoLoc EXCEPT !.customerEmail = r.contactEmail],
                            "m_list")
                 /\ bg' = [bg EXCEPT ![e] = "none"]
                 /\ loads' = NoLoads
                 /\ UNCHANGED <<homePageState, selectedTicketId>>
       [] r.component_id \in SelectIds ->
            /\ selectedTicketId' = TicketOf(r.component_id)
            /\ Replied(e, ConfirmPanel(TicketOf(r.component_id)), NoLoc)
            /\ bg' = [bg EXCEPT ![e] = "none"]
            /\ loads' = NoLoads
            /\ UNCHANGED <<homePageState, mergePageState>>
       [] r.component_id = "merge_ticket" ->
            IF r.conversation = "absent"
            THEN \* req.body.conversation.id throws; the outer catch replies
                 /\ Replied(e, ExceptionPanel, NoLoc)
                 /\ ArriveFrame(e)
            ELSE IF MissingIds(selectedTicketId)
            THEN /\ Replied(e, MissingIdPanel, NoLoc)
                 /\ ArriveFrame(e)
            ELSE \* the UI-response IIFE, then the background IIFE up to its first await
                 /\ BackHome(e, r.contactEmail, [NoLoc EXCEPT !.ticketId = selectedTicketId])
                 /\ bg' = [bg EXCEPT ![e] = "mg_conv"]
                 /\ loads' = NoLoads
                 /\ UNCHANGED <<homePageState, mergePageState, selectedTicketId>>
       [] r.component_id \in {"cancel_merge", "back_to_home"} ->
            \* intercomContext was set to this request's email a few lines above
            /\ BackHome(e, r.contactEmail, NoLoc)
            /\ ArriveFrame(e)
       [] r.component_id = "load_more_tickets" ->
            /\ IF CursorMissing(mergePageState)
               THEN /\ Replied(e, SessionExpiredPanel, NoLoc)
                    /\ loads' = NoLoads
                    /\ UNCHANGED mergePageState
               ELSE /\ mergePageState' = Advance(mergePageState)
                    /\ loads' = Loaded("merge", mergePageState)
                    /\ Replied(e, MergeListPanel(Advance(mergePageState).currentOffset,
                                                 Advance(mergePageState).hasMore), NoLoc)
            /\ bg' = [bg EXCEPT ![e] = "none"]
            /\ UNCHANGED <<homePageState, selectedTicketId>>
       [] r.component_id = "load_more_home_tickets" ->
            /\ IF CursorMissing(homePageState)
               THEN /\ Replied(e, SessionExpiredPanel, NoLoc)
                    /\ loads' = NoLoads
                    /\ UNCHANGED homePageState
               ELSE /\ homePageState' = Advance(homePageState)
                    /\ loads' = Loaded("home", homePageState)
                    /\ Replied(e, HomePanel(TRUE, Advance(homePageState).currentOffset,
                                            Advance(homePageState).hasMore), NoLoc)
            /\ bg' = [bg EXCEPT ![e] = "none"]
            /\ UNCHANGED <<mergePageState, selectedTicketId>>
       [] r.component_id = "submit_ticket_button" /\ SubmitBranch(r) = "validation" ->
            /\ Awaiting(e, NoLoc, "mailboxes")
            /\ ArriveFrame(e)
       [] r.component_id = "submit_ticket_button" /\ SubmitBranch(r) = "recheck" ->
            /\ Replied(e, RecheckForm(r), NoLoc)
            /\ ArriveFrame(e)
       [] r.component_id = "submit_ticket_button" /\ SubmitBranch(r) = "generic" ->
            /\ Replied(e, GenericErrorPanel, NoLoc)
            /\ ArriveFrame(e)
       [] r.component_id = "submit_ticket_button" /\ SubmitBranch(r) = "accepted" ->
            /\ Awaiting(e, NoLoc, "s_recent")
            /\ ArriveFrame(e)
       [] r.component_id = "cancel" ->
            /\ IF r.contactEmail = Empty
               THEN Replied(e, HomePanel(FALSE, 0, FALSE), NoLoc)
               ELSE IF CachedHome(r.contactEmail)
               THEN Replied(e, CachedHomePanel, NoLoc)
               ELSE Awaiting(e, [NoLoc EXCEPT !.customerEmail = r.contactEmail],
                            "c_home")
            /\ ArriveFrame(e)
       [] r.component_id \in {"retry_button", "refresh_status"} ->
            /\ Start(e, DirectReply(FreshChan, 200, DefaultPanel), NoLoc, "done", <<"reply">>)
            /\ ArriveFrame(e)
       [] OTHER ->
            /\ Start(e, DefaultReply(FreshChan), NoLoc, "done", <<"reply">>)
            /\ ArriveFrame(e)

\* the route handler, for an event of the session the last event came from
Handle(e, r) ==
  /\ intercomContext.set => r.contactEmail = intercomContext.customerEmail
  /\ Serve(e, r)

\* an inbound POST /api/submit
Arrive(e, r) ==
  /\ arrivals < MaxEvents
  /\ Handle(e, r)

\* ------------------------------------------------------------------------
\* The schema fetch shared by create_ticket and the validation-error form
\* ------------------------------------------------------------------------
SchemaEnd(e, l, failed) ==
  LET r == req[e]
      isCreate == r.component_id = "create_ticket"
  IN IF isCreate /\ failed
     THEN Finish(e, SchemaErrorReply(Chan(e)), l, <<"schema_failed", "reply">>)
     ELSE IF isCreate
     THEN Finish(e, SendResponse(Chan(e), CreateFormPanel(r.contactEmail, l)), l,
                 ReplyLog(Chan(e)))
     ELSE Finish(e, SendResponse(Chan(e), ErrorForm(r, l)), l, ReplyLog(Chan(e)))

SchemaFrame ==
  UNCHANGED <<req, timerFiredFirst, timerCalls, bg, ticketTracker,
              intercomContext, homePageState, mergePageState, selectedTicketId,
              arrivals, loads, fw, canvas, chosen, download>>

MailboxesReturn(e) ==
  /\ pc[e] = "mailboxes"
  /\ SchemaFrame
  /\ \E ok \in BOOLEAN :
       IF ok THEN Suspend(e, Chan(e), loc[e], "fields")
       ELSE SchemaEnd(e, loc[e], TRUE)

FieldsReturn(e) ==
  /\ pc[e] = "fields"
  /\ SchemaFrame
  /\ \E ok \in BOOLEAN, statusField \in BOOLEAN, priorityField \in BOOLEAN :
       LET l == [loc[e] EXCEPT !.priorityField = priorityField]
       IN IF ~ok THEN SchemaEnd(e, loc[e], TRUE)
          ELSE IF statusField THEN Suspend(e, Chan(e), l, "status")
          ELSE IF priorityField THEN Suspend(e, Chan(e), l, "priority")
          ELSE SchemaEnd(e, l, FALSE)

StatusReturn(e) ==
  /\ pc[e] = "status"
  /\ SchemaFrame
  /\ \E ok \in BOOLEAN :
       LET l == [loc[e] EXCEPT !.statusChoices = TRUE]
       IN IF ~ok THEN SchemaEnd(e, loc[e], TRUE)
          ELSE IF loc[e].priorityField THEN Suspend(e, Chan(e), l, "priority")
          ELSE SchemaEnd(e, l, FALSE)

PriorityReturn(e) ==
  /\ pc[e] = "priority"
  /\ SchemaFrame
  /\ \E ok \in BOOLEAN :
       LET l == [loc[e] EXCEPT !.priorityChoices = TRUE]
       IN IF ~ok THEN SchemaEnd(e, loc[e], TRUE)
          ELSE SchemaEnd(e, l, FALSE)

\* ------------------------------------------------------------------------
\* submit_ticket_button, accepted: home view, marker, reply, background task
\* ------------------------------------------------------------------------
BgScheduled_OnlyIfReplied(sentBefore) == IF sentBefore THEN "none" ELSE "scheduled"

\* setTimeout(async () => {...}, 0) after sendResponse
BgScheduled(sentBefore) == "scheduled"

MarkerKey_Contact(r) == Or(r.contactEmail, Trim(r.email))

\* const email = userProvidedEmail, the key of every ticketTracker.set of the handler
MarkerKey(r) == Trim(r.email)

SubmitFinish(e, l, panel) ==
  /\ ticketTracker' = [ticketTracker EXCEPT ![MarkerKey(req[e])] = PendingMarker]
  /\ bg' = [bg EXCEPT ![e] = BgScheduled(responseSent[e])]
  /\ Finish(e, SendResponse(Chan(e), panel), l,
            <<"marker_pending">> \o ReplyLog(Chan(e)))

SubmitRecentReturn(e) ==
  /\ pc[e] = "s_recent"
  /\ UNCHANGED <<req, timerFiredFirst, timerCalls, intercomContext,
                 mergePageState, selectedTicketId, arrivals, loads, fw, canvas, chosen, download>>
  /\ \E ok \in BOOLEAN :
       LET customerEmail == CallerEmail(req[e], intercomContext)
           l == [loc[e] EXCEPT !.customerEmail = customerEmail]
           h == homePageState
       IN IF customerEmail = Empty
          THEN /\ SubmitFinish(e, l, HomePanel(FALSE, 0, FALSE))
               /\ UNCHANGED homePageState
          ELSE IF h.set /\ h.customerEmail = customerEmail
          THEN /\ SubmitFinish(e, l, HomePanel(TRUE, Min(h.allTickets, h.currentOffset), h.hasMore))
               /\ UNCHANGED homePageState
          ELSE /\ Suspend(e, Chan(e), l, "s_home")
               /\ UNCHANGED <<bg, ticketTracker, homePageState>>

SubmitHomeReturn(e) ==
  /\ pc[e] = "s_home"
  /\ UNCHANGED <<req, timerFiredFirst, timerCalls, intercomContext,
                 mergePageState, selectedTicketId, arrivals, loads, fw, canvas, chosen, download>>
  /\ \E ok \in BOOLEAN, n \in TicketCounts :
       IF ok
       THEN /\ homePageState' = FetchedState(loc[e].customerEmail, n)
            /\ SubmitFinish(e, loc[e], HomePanel(TRUE, Min(n, PageSize), n > PageSize))
       ELSE /\ UNCHANGED homePageState
            /\ SubmitFinish(e, loc[e], HomePanel(TRUE, 0, FALSE))

BgFrame ==
  UNCHANGED <<req, pc, loc, responseSent, timer, timerFiredFirst, timerCalls,
              replies, intercomContext, homePageState, mergePageState,
              selectedTicketId, arrivals, loads, fw, canvas, chosen, download>>

BgStep(e, to, entries) ==
  /\ bg' = [bg EXCEPT ![e] = to]
  /\ log' = [log EXCEPT ![e] = @ \o entries]

\* the setTimeout(..., 0) callback starts
BgRun(e) ==
  /\ bg[e] = "scheduled"
  /\ BgFrame /\ UNCHANGED ticketTracker
  /\ IF req[e].conversation # "absent"
     THEN BgStep(e, "conv", <<"bg_start", "conversation_call">>)
     ELSE BgStep(e, "create", <<"bg_start", "create_call">>)

\* fetchIntercomConversation resolves (null on error), formatConversationAsHtml is called
BgConvReturn(e) ==
  /\ bg[e] = "conv"
  /\ BgFrame /\ UNCHANGED ticketTracker
  /\ \E ok \in BOOLEAN :
       BgStep(e, IF ok THEN "format" ELSE "format_null",
              IF ok THEN <<>> ELSE <<"conversation_fail">>)

\* formatConversationAsHtml resolves or throws (it throws on null);
\* either way addConversationTranscriptToTicket is called next
BgFormatReturn(e) ==
  /\ bg[e] \in {"format", "format_null"}
  /\ BgFrame /\ UNCHANGED ticketTracker
  /\ \E ok \in BOOLEAN :
       BgStep(e, "transcript", IF bg[e] = "format" /\ ~ok THEN <<"format_fail">> ELSE <<>>)

\* what the helper's own conversation fetch, formatting and attachment
\* download end in
TranscriptInputs ==
  [conversation : {"null", "c1"}, formatOk : BOOLEAN,
   attachments : {0, 1}, downloadOk : BOOLEAN]

AddConversationTranscriptToTicket_Rethrows(in) ==
  IF in.conversation = "null"
  THEN [threw |-> FALSE, ticketData |-> "ticketData", attachments |-> 0]
  ELSE IF ~in.formatOk
  THEN [threw |-> TRUE, ticketData |-> "none", attachments |-> 0]
  ELSE [threw |-> FALSE, ticketData |-> "updatedTicketData",
        attachments |-> IF in.downloadOk THEN in.attachments ELSE 0]

\* addConversationTranscriptToTicket(ticketData, conversationId) with a
\* conversation id: the ticket data it resolves with
AddConversationTranscriptToTicket(in) ==
  IF in.conversation = "null"
  THEN [threw |-> FALSE, ticketData |-> "ticketData", attachments |-> 0]
  ELSE IF ~in.formatOk
  THEN [threw |-> FALSE, ticketData |-> "ticketData", attachments |-> 0]
  ELSE [threw |-> FALSE, ticketData |-> "updatedTicketData",
        attachments |-> IF in.downloadOk THEN in.attachments ELSE 0]

\* addConversationTranscriptToTicket resolves and createFreshdeskTicket is
\* called; had it thrown, the catch of the task would call postIntercomNote
BgTranscriptReturn(e) ==
  /\ bg[e] = "transcript"
  /\ BgFrame /\ UNCHANGED ticketTracker
  /\ \E in \in TranscriptInputs :
       IF AddConversationTranscriptToTicket(in).threw
       THEN BgStep(e, "note_fail", <<"notify_call">>)
       ELSE BgStep(e, "create", <<"create_call">>)

AfterCreate_NotifyFirst(ok) ==
  <<"notify_call", IF ok THEN "create_ok" ELSE "create_fail">>

\* after createFreshdeskTicket resolved or threw: if (conversationId) await postIntercomNote(...)
AfterCreate(ok) ==
  <<IF ok THEN "create_ok" ELSE "create_fail", "notify_call">>

NoteMarker_NeedsNotify(created, notified) ==
  IF created /\ notified THEN DoneMarker ELSE FailedMarker

\* the ticketTracker.set that follows postIntercomNote in the try and in the catch branch
NoteMarker(created, notified) ==
  IF created THEN DoneMarker ELSE FailedMarker

\* createFreshdeskTicket resolves or throws
BgCreateReturn(e) ==
  /\ bg[e] = "create"
  /\ BgFrame
  /\ \E ok \in BOOLEAN :
       IF req[e].conversation # "absent"
       THEN /\ BgStep(e, IF ok THEN "note_ok" ELSE "note_fail", AfterCreate(ok))
            /\ UNCHANGED ticketTracker
       ELSE /\ BgStep(e, "done", <<IF ok THEN "create_ok" ELSE "create_fail",
                                   IF ok THEN "marker_done" ELSE "marker_failed">>)
            /\ ticketTracker' = [ticketTracker EXCEPT ![MarkerKey(req[e])] =
                                   IF ok THEN DoneMarker ELSE FailedMarker]

\* postIntercomNote resolves (null on error, it never throws)
BgNoteReturn(e) ==
  /\ bg[e] \in {"note_ok", "note_fail"}
  /\ BgFrame
  /\ \E ok \in BOOLEAN :
       /\ BgStep(e, "done", <<IF ok THEN "notify_ok" ELSE "notify_fail",
                               IF bg[e] = "note_ok" THEN "marker_done" ELSE "marker_failed">>)
       /\ ticketTracker' = [ticketTracker EXCEPT ![MarkerKey(req[e])] =
                              NoteMarker(bg[e] = "note_ok", ok)]

\* ------------------------------------------------------------------------
\* Continuations of the list-oriented handlers
\* ------------------------------------------------------------------------
ListFrame ==
  UNCHANGED <<req, timerFiredFirst, timerCalls, bg, ticketTracker,
              intercomContext, selectedTicketId, arrivals, loads, fw, canvas, chosen, download>>

\* add_to_existing_ticket after its axios.get (per_page=20)
MergeListReturn(e) ==
  /\ pc[e] = "m_list"
  /\ ListFrame /\ UNCHANGED homePageState
  /\ \E ok \in BOOLEAN, n \in TicketCounts :
       IF ok /\ n > 0
       THEN /\ mergePageState' = [mergePageState EXCEPT !.allTickets = n,
                                    !.currentOffset = PageSize, !.hasMore = n > PageSize,
                                    !.fetchedFor = loc[e].customerEmail]
            /\ Finish(e, SendResponse(Chan(e), MergeListPanel(Min(n, PageSize), n > PageSize)),
                      loc[e], ReplyLog(Chan(e)))
       ELSE /\ UNCHANGED mergePageState
            /\ Finish(e, SendResponse(Chan(e), IF ok THEN NoTicketsPanel ELSE ListErrorPanel),
                      loc[e], ReplyLog(Chan(e)))

\* cancel_merge / back_to_home / merge_ticket UI after fetchRecentTickets (per_page=5)
HomeRecentReturn(e) ==
  /\ pc[e] = "h_recent"
  /\ ListFrame /\ UNCHANGED <<homePageState, mergePageState>>
  /\ \E ok \in BOOLEAN, n \in TicketCounts :
       Finish(e, SendResponse(Chan(e), HomePanel(TRUE, IF ok THEN Min(n, PageSize) ELSE 0, FALSE)),
              loc[e], ReplyLog(Chan(e)))

\* cancel after its axios.get (per_page=20)
CancelHomeReturn(e) ==
  /\ pc[e] = "c_home"
  /\ ListFrame /\ UNCHANGED mergePageState
  /\ \E ok \in BOOLEAN, n \in TicketCounts :
       IF ok
       THEN /\ homePageState' = FetchedState(loc[e].customerEmail, n)
            /\ Finish(e, SendResponse(Chan(e), HomePanel(TRUE, Min(n, PageSize), n > PageSize)),
                      loc[e], ReplyLog(Chan(e)))
       ELSE /\ UNCHANGED homePageState
            /\ Finish(e, SendResponse(Chan(e), HomePanel(TRUE, 0, FALSE)),
                      loc[e], ReplyLog(Chan(e)))

\* ------------------------------------------------------------------------
\* merge_ticket: the background IIFE
\* ------------------------------------------------------------------------
MergeConvReturn(e) ==
  /\ bg[e] = "mg_conv"
  /\ BgFrame /\ UNCHANGED ticketTracker
  /\ \E ok \in BOOLEAN : BgStep(e, IF ok THEN "mg_format" ELSE "mg_format_null", <<>>)

\* formatConversationAsHtml resolves or throws; then a download, the note POST, or the catch
MergeFormatReturn(e) ==
  /\ bg[e] \in {"mg_format", "mg_format_null"}
  /\ BgFrame /\ UNCHANGED ticketTracker
  /\ \E ok \in BOOLEAN, attachments \in BOOLEAN :
       IF bg[e] = "mg_format_null" \/ ~ok
       THEN BgStep(e, "mg_notify_fail", <<"notify_call">>)
       ELSE IF attachments THEN BgStep(e, "mg_download", <<"download_call">>)
       ELSE BgStep(e, "mg_note", <<"note_call">>)

\* downloadFile resolves (null on error)
MergeDownloadReturn(e) ==
  /\ bg[e] = "mg_download"
  /\ BgFrame /\ UNCHANGED ticketTracker
  /\ \E ok \in BOOLEAN :
       BgStep(e, "mg_note", <<IF ok THEN "download_ok" ELSE "download_fail", "note_call">>)

NotifyAfterNote_Success(ok) == "mg_notify_ok"

\* the postIntercomNote call that follows the note POST: the "Successfully
\* added" message at the end of the try, the "Failed to add" one in the catch
NotifyAfterNote(ok) == IF ok THEN "mg_notify_ok" ELSE "mg_notify_fail"

\* the POST /tickets/{id}/notes resolves or throws
MergeNoteReturn(e) ==
  /\ bg[e] = "mg_note"
  /\ BgFrame /\ UNCHANGED ticketTracker
  /\ \E ok \in BOOLEAN :
       BgStep(e, NotifyAfterNote(ok),
              <<IF ok THEN "note_ok" ELSE "note_fail", "notify_call">>)

MergeNotifyReturn(e) ==
  /\ bg[e] \in {"mg_notify_ok", "mg_notify_fail"}
  /\ BgFrame /\ UNCHANGED ticketTracker
  /\ \E ok \in BOOLEAN : BgStep(e, "done", <<IF ok THEN "notify_ok" ELSE "notify_fail">>)

\* ------------------------------------------------------------------------
\* The 9000 ms timeout callback
\* ------------------------------------------------------------------------
TimerMaySend_Always(sent) == TRUE

\* if (!responseSent) { res.json(...) } at the end of the callback
TimerMaySend(sent) == ~sent

TimerFrame ==
  UNCHANGED <<req, pc, loc, bg, log, intercomContext, homePageState,
              mergePageState, selectedTicketId, arrivals, loads, fw, canvas, chosen, download>>

TimerEnd(e, sent, panel) ==
  /\ replies' = [replies EXCEPT ![e] =
                   IF TimerMaySend(sent)
                   THEN Append(@, [by |-> "timeout", code |-> 200, panel |-> panel])
                   ELSE @]
  /\ responseSent' = [responseSent EXCEPT ![e] = TRUE]
  /\ timer' = [timer EXCEPT ![e] = "done"]

TimerFire(e) ==
  /\ timer[e] = "armed"
  /\ TimerFrame
  /\ IF responseSent[e]
     THEN /\ timer' = [timer EXCEPT ![e] = "done"]
          /\ UNCHANGED <<responseSent, replies, timerFiredFirst, timerCalls, ticketTracker>>
     ELSE LET email == CallerEmail(req[e], intercomContext)
          IN /\ timerFiredFirst' = [timerFiredFirst EXCEPT ![e] = (replies[e] = <<>>)]
             /\ ticketTracker' =
                  IF email # Empty /\ req[e].component_id = "submit_ticket_button"
                  THEN [ticketTracker EXCEPT ![email] = PendingMarker]
                  ELSE ticketTracker
             /\ IF email # Empty
                THEN /\ timerCalls' = [timerCalls EXCEPT ![e] = @ + 1]
                     /\ responseSent' = [responseSent EXCEPT ![e] = TRUE]
                     /\ timer' = [timer EXCEPT ![e] = "fetching"]
                     /\ UNCHANGED replies
                ELSE /\ TimerEnd(e, TRUE, TimeoutPanel(0))
                     /\ UNCHANGED timerCalls

TimerFetchReturn(e) ==
  /\ timer[e] = "fetching"
  /\ TimerFrame
  /\ UNCHANGED <<timerFiredFirst, timerCalls, ticketTracker>>
  /\ \E shown \in {Min(n, PageSize) : n \in TicketCounts} :
       \* a failed fetch and an empty list both render "No recent tickets"
       TimerEnd(e, responseSent[e], TimeoutPanel(shown))

\* ------------------------------------------------------------------------
Progress(e) ==
  \/ MailboxesReturn(e)
  \/ FieldsReturn(e)
  \/ StatusReturn(e)
  \/ PriorityReturn(e)
  \/ SubmitRecentReturn(e)
  \/ SubmitHomeReturn(e)
  \/ MergeListReturn(e)
  \/ HomeRecentReturn(e)
  \/ CancelHomeReturn(e)
  \/ MergeConvReturn(e)
  \/ MergeFormatReturn(e)
  \/ MergeDownloadReturn(e)
  \/ MergeNoteReturn(e)
  \/ MergeNotifyReturn(e)
  \/ BgRun(e)
  \/ BgConvReturn(e)
  \/ BgFormatReturn(e)
  \/ BgTranscriptReturn(e)
  \/ BgCreateReturn(e)
  \/ BgNoteReturn(e)
  \/ TimerFire(e)
  \/ TimerFetchReturn(e)

Next ==
  \/ \E e \in Events, r \in Requests : Arrive(e, r)
  \/ \E e \in Events : Progress(e)

Spec == Init /\ [][Next]_vars

\* upstream calls return, timers fire, scheduled callbacks run
FairSpec == Spec /\ \A e \in Events : WF_vars(Progress(e))

\* the continuations that do not wait for an upstream without a timeout:
\* fetchWithRetry calls (timeout: 10000), downloadFile (timeout: 30000),
\* formatConversationAsHtml (no upstream call), setTimeout callbacks
Bounded(e) ==
  \/ MailboxesReturn(e)
  \/ FieldsReturn(e)
  \/ StatusReturn(e)
  \/ PriorityReturn(e)
  \/ BgRun(e)
  \/ BgFormatReturn(e)
  \/ MergeFormatReturn(e)
  \/ MergeDownloadReturn(e)
  \/ TimerFire(e)

\* an upstream that may never respond: only the bounded continuations are
\* certain to run
UnresponsiveSpec == Spec /\ \A e \in Events : WF_vars(Bounded(e))

\* ------------------------------------------------------------------------
\* Two validate-and-submit-create events in flight at once: the second POST
\* arrives while the first one is still at an await or in its background task
\* ------------------------------------------------------------------------
RaceRequests ==
  {r \in SubmitRequests :
     /\ r.contactEmail = EmailA
     /\ r.email = EmailB
     /\ r.subject = <<" ", "s">>
     /\ r.description = <<"d">>
     /\ r.conversation = "c1"
     /\ r.sourceBody = Empty}

RaceArrive(e, r) ==
  /\ pc[e] = "idle"
  /\ Handle(e, r)

RaceProgress(e) ==
  \/ SubmitRecentReturn(e)
  \/ SubmitHomeReturn(e)
  \/ BgRun(e)
  \/ BgConvReturn(e)
  \/ BgFormatReturn(e)
  \/ BgTranscriptReturn(e)
  \/ BgCreateReturn(e)
  \/ BgNoteReturn(e)
  \/ TimerFire(e)
  \/ TimerFetchReturn(e)

RaceNext ==
  \/ \E e \in Slots, r \in RaceRequests : RaceArrive(e, r)
  \/ \E e \in Slots : RaceProgress(e)

RaceSpec == Init /\ [][RaceNext]_vars

\* ------------------------------------------------------------------------
\* List browsing: a list is started and paged through by load-more events
\* ------------------------------------------------------------------------
LoadMoreIds == {"load_more_tickets", "load_more_home_tickets"}

\* list-browsing events of two sessions
PagingRequests ==
  [component_id : {"add_to_existing_ticket", "cancel"} \cup LoadMoreIds,
   contactEmail : {EmailA, EmailB},
   email : {Empty}, subject : {Empty}, description : {Empty},
   conversation : {"absent"}, sourceBody : {Empty}]

PagingArrive(e, r) ==
  /\ arrivals < MaxLoads
  /\ Serve(e, r)

PagingProgress(e) ==
  \/ MergeListReturn(e)
  \/ CancelHomeReturn(e)
  \/ TimerFire(e)
  \/ TimerFetchReturn(e)

PagingNext ==
  \/ \E e \in Events, r \in PagingRequests : PagingArrive(e, r)
  \/ \E e \in Events : PagingProgress(e)

PagingSpec == Init /\ [][PagingNext]_vars

\* ------------------------------------------------------------------------
\* fetchWithRetry(url, options, retries = 3, initialDelay = 500)
\* ------------------------------------------------------------------------
RetryFrame ==
  UNCHANGED <<req, pc, loc, responseSent, timer, timerFiredFirst, timerCalls,
              replies, bg, log, ticketTracker, intercomContext, homePageState,
              mergePageState, selectedTicketId, arrivals, loads, canvas, chosen, download>>

\* while (attempts <= retries): the next axios call, or the end of the function body
LoopTest(f) == IF f.attempts <= Retries THEN "calling" ELSE "undefined"

IsSuccess_Never(o) == FALSE

\* the awaited axios call resolves
IsSuccess(o) == o = "ok"

AttemptsExhausted_Late(attempts) == attempts > Retries + 1

\* if (attempts > retries) throw error
AttemptsExhausted(attempts) == attempts > Retries

\* currentDelay = Math.min(currentDelay * 2, 10000) * (0.8 + Math.random() * 0.4)
Backoff(currentDelay, j) == (Min(currentDelay * 2, DelayCap) * j) \div 10

\* the call of fetchWithRetry, up to its first axios call
FetchWithRetry ==
  /\ fw.state = "idle"
  /\ RetryFrame
  /\ fw' = [NoFetch EXCEPT !.state = LoopTest(NoFetch), !.currentDelay = InitialDelay]

\* the axios call resolves or rejects; the catch block up to its await
AttemptReturn ==
  /\ fw.state = "calling"
  /\ RetryFrame
  /\ \E o \in Outcomes :
       LET tried == Append(fw.tried, o)
           attempts == fw.attempts + 1
       IN fw' = IF IsSuccess(o)
                THEN [fw EXCEPT !.tried = tried, !.state = "returned"]
                ELSE IF AttemptsExhausted(attempts)
                THEN [fw EXCEPT !.tried = tried, !.attempts = attempts,
                                !.state = "thrown", !.error = o]
                ELSE [fw EXCEPT !.tried = tried, !.attempts = attempts,
                                !.state = "waiting",
                                !.delays = Append(@, fw.currentDelay)]

\* the delay timer fires: the backoff update, then the loop test
DelayEnd ==
  /\ fw.state = "waiting"
  /\ RetryFrame
  /\ \E j \in JitterTenths :
       LET g == [fw EXCEPT !.currentDelay = Backoff(fw.currentDelay, j)]
       IN fw' = [g EXCEPT !.state = LoopTest(g)]

RetryNext ==
  \/ FetchWithRetry
  \/ AttemptReturn
  \/ DelayEnd

RetrySpec == Init /\ [][RetryNext]_vars

\* every axios call ends within its 10000 ms timeout, every delay timer fires
RetryFairSpec == RetrySpec /\ WF_vars(AttemptReturn) /\ WF_vars(DelayEnd)

\* ------------------------------------------------------------------------
\* app.post('/api/initialize')
\* ------------------------------------------------------------------------
\* customer.email || contact.email || conversation.contact.email || ''
InitializeEmails == {Empty, EmailA, EmailB}

\* what the list call of an initialize request is answered with
InitializeCounts == {0, 1, MaxTickets}

ErrorLoadingPanel == [kind |-> "error_loading"]

ClearInProgress_Always(tracker, customerEmail) ==
  IF customerEmail # Empty /\ tracker[customerEmail].present
  THEN [tracker EXCEPT ![customerEmail] = NoMarker]
  ELSE tracker

ClearInProgress_Never(tracker, customerEmail) == tracker

\* if (customerEmail && ticketTracker.has(customerEmail)) {
\*   if (ticketInfo.inProgress) ticketTracker.delete(customerEmail) }
ClearInProgress(tracker, customerEmail) ==
  IF /\ customerEmail # Empty
     /\ tracker[customerEmail].present
     /\ tracker[customerEmail].inProgress
  THEN [tracker EXCEPT ![customerEmail] = NoMarker]
  ELSE tracker

InitializeFrame ==
  UNCHANGED <<req, pc, loc, responseSent, timer, timerFiredFirst, timerCalls,
              replies, bg, log, mergePageState, selectedTicketId, arrivals,
              loads, fw, chosen, download>>

\* the route handler from its first line to its await of the list call
Initialize(i, customerEmail) ==
  /\ canvas[i].state = "idle"
  /\ InitializeFrame
  /\ ticketTracker' = ClearInProgress(ticketTracker, customerEmail)
  /\ intercomContext' = [set |-> TRUE, customerEmail |-> customerEmail]
  /\ homePageState' = PlaceholderState(customerEmail)
  /\ canvas' = [canvas EXCEPT ![i] = [state |-> "fetching",
                                       customerEmail |-> customerEmail,
                                       reply |-> <<>>]]

\* the list call resolves or rejects: the cursor held by app.locals at that
\* moment is filled in and res.json is called, or the catch replies
InitializeReturn(i) ==
  /\ canvas[i].state = "fetching"
  /\ InitializeFrame
  /\ UNCHANGED <<ticketTracker, intercomContext>>
  /\ \E ok \in BOOLEAN, n \in InitializeCounts :
       IF ok
       THEN /\ homePageState' = [homePageState EXCEPT
                                   !.allTickets = n, !.currentOffset = PageSize,
                                   !.hasMore = n > PageSize,
                                   !.fetchedFor = canvas[i].customerEmail]
            /\ canvas' = [canvas EXCEPT ![i].state = "done",
                            ![i].reply = <<HomePanel(TRUE, Min(n, PageSize), n > PageSize)>>]
       ELSE /\ UNCHANGED homePageState
            /\ canvas' = [canvas EXCEPT ![i].state = "done",
                                         ![i].reply = <<ErrorLoadingPanel>>]

\* events of a conversation around its initialize requests: one accepted
\* submit, cancel events of two sessions, list events without an email
InitRequests ==
  {r \in SubmitRequests :
     /\ r.contactEmail = EmailA
     /\ r.email = EmailB
     /\ r.subject = <<" ", "s">>
     /\ r.description = <<"d">>
     /\ r.conversation = "absent"} \cup
  {r \in [component_id : {"cancel", "back_to_home", "add_to_existing_ticket"},
          contactEmail : {Empty, EmailA, EmailB},
          email : {Empty}, subject : {Empty}, description : {Empty},
          conversation : {"absent"}, sourceBody : {Empty}] :
     r.component_id # "cancel" => r.contactEmail = Empty}

InitArrive(e, r) ==
  /\ arrivals < MaxEvents
  /\ Serve(e, r)

InitProgress(e) ==
  \/ CancelHomeReturn(e)
  \/ SubmitRecentReturn(e)
  \/ SubmitHomeReturn(e)
  \/ BgRun(e)
  \/ BgCreateReturn(e)
  \/ TimerFire(e)
  \/ TimerFetchReturn(e)

InitNext ==
  \/ \E i \in Slots, customerEmail \in InitializeEmails : Initialize(i, customerEmail)
  \/ \E i \in Slots : InitializeReturn(i)
  \/ \E e \in Events, r \in InitRequests : InitArrive(e, r)
  \/ \E e \in Events : InitProgress(e)

InitSpec == Init /\ [][InitNext]_vars

\* ------------------------------------------------------------------------
\* Selecting and merging: select_ticket_ and merge_ticket events of two
\* sessions, one after the other
\* ------------------------------------------------------------------------
MergeRequests ==
  [component_id : {"select_ticket_1", "select_ticket_2", "merge_ticket"},
   contactEmail : {EmailA, EmailB},
   email : {Empty}, subject : {Empty}, description : {Empty},
   conversation : {"c1"}, sourceBody : {Empty}]

MergeArrive(e, r) ==
  /\ arrivals < MaxMergeEvents
  /\ Serve(e, r)

MergeProgress(e) ==
  \/ HomeRecentReturn(e)
  \/ MergeConvReturn(e)
  \/ MergeFormatReturn(e)
  \/ MergeDownloadReturn(e)
  \/ MergeNoteReturn(e)
  \/ MergeNotifyReturn(e)
  \/ TimerFire(e)
  \/ TimerFetchReturn(e)

MergeNext ==
  \/ \E e \in Events, r \in MergeRequests : MergeArrive(e, r)
  \/ \E e \in Events : MergeProgress(e)

MergeSpec == Init /\ [][MergeNext]_vars

\* ------------------------------------------------------------------------
\* downloadFile(url, filename) of conversation-helper.js
\* ------------------------------------------------------------------------
\* attachment URLs as sequences of pieces; "&amp;" is one piece
Paths == {<<"h">>, <<"h", "/", "p">>}

Queries ==
  {<<>>, <<"?", "a">>, <<"?", "a", "&amp;", "b">>, <<"?", "a", "&", "b">>,
   <<"?", "a", "?", "b">>}

Urls == {p \o q : p \in Paths, q \in Queries}

Filenames == {"f1", "f2"}

FileBodies == {"body1", "body2"}

\* url.replace(/&amp;/g, '&')
CleanUrl(url) == [i \in 1 .. Len(url) |-> IF url[i] = "&amp;" THEN "&" ELSE url[i]]

RECURSIVE BeforeQuery(_)
\* cleanUrl.split('?')[0]
BeforeQuery(url) ==
  IF url = <<>> \/ Head(url) = "?" THEN <<>> ELSE <<Head(url)>> \o BeforeQuery(Tail(url))

DownloadFrame ==
  UNCHANGED <<req, pc, loc, responseSent, timer, timerFiredFirst, timerCalls,
              replies, bg, log, ticketTracker, intercomContext, homePageState,
              mergePageState, selectedTicketId, arrivals, loads, fw, canvas,
              chosen>>

AllFailed_Throws(d) == [d EXCEPT !.state = "thrown", !.result = "error"]

\* the outer catch: return null
AllFailed(d) == [d EXCEPT !.state = "returned", !.result = "null"]

\* the call of downloadFile up to its first axios call
DownloadFile(url, filename) ==
  /\ download.state = "idle"
  /\ DownloadFrame
  /\ download' = [NoDownload EXCEPT !.state = "primary", !.url = url,
                                    !.filename = filename,
                                    !.tried = <<CleanUrl(url)>>]

\* the first axios call resolves (return response.data) or rejects (the
\* inner catch issues the call for the simplified URL)
PrimaryReturn ==
  /\ download.state = "primary"
  /\ DownloadFrame
  /\ \E o \in FileBodies \cup {"fail"} :
       download' =
         IF o # "fail"
         THEN [download EXCEPT !.state = "returned", !.result = o,
                               !.outcomes = Append(@, o)]
         ELSE [download EXCEPT !.state = "fallback", !.outcomes = Append(@, o),
                               !.tried = Append(@, BeforeQuery(CleanUrl(download.url)))]

\* the fallback axios call resolves (return fallbackResponse.data) or
\* rejects into the outer catch
FallbackReturn ==
  /\ download.state = "fallback"
  /\ DownloadFrame
  /\ \E o \in FileBodies \cup {"fail"} :
       download' =
         IF o # "fail"
         THEN [download EXCEPT !.state = "returned", !.result = o,
                               !.outcomes = Append(@, o)]
         ELSE AllFailed([download EXCEPT !.outcomes = Append(@, o)])

DownloadNext ==
  \/ \E url \in Urls, filename \in Filenames : DownloadFile(url, filename)
  \/ PrimaryReturn
  \/ FallbackReturn

DownloadSpec == Init /\ [][DownloadNext]_vars

\* ========================================================================
\* Properties
\* ========================================================================
Has(seq, x) == \E i \in 1 .. Len(seq) : seq[i] = x

\* empty or whitespace only
AllSpaces(str) == \A i \in 1 .. Len(str) : str[i] = " "

\* a basic address shape: something, an "@", something
AddressShape(str) ==
  \E i \in 1 .. Len(str) :
    /\ str[i] = "@"
    /\ \E j \in 1 .. (i - 1) : str[j] # " "
    /\ \E j \in (i + 1) .. Len(str) : str[j] # " "

IsSubmit(e) == pc[e] # "idle" /\ req[e].component_id = "submit_ticket_button"

\* a validate-and-submit-create event that passed every check of the handler
Accepted(e) ==
  /\ IsSubmit(e)
  /\ ~AllSpaces(req[e].email)
  /\ ~AllSpaces(req[e].subject)
  /\ Description(req[e]) # Empty

\* the timeout callback runs in this step
TimerFires(e) == timer[e] = "armed" /\ timer'[e] \in {"fetching", "done"}

\* C1: at most one HTTP reply is written for an inbound event, on every path
\* and in every interleaving of handler, timeout and upstream responses.
C1_AtMostOneReply == \A e \in Events : Len(replies[e]) <= 1

\* a handler that replied with res.json directly, and whose timeout then ran to its end
C1_Witness ==
  \E e \in Events :
    /\ Len(replies[e]) = 1
    /\ replies[e][1].by = "direct"
    /\ timer[e] = "done"
    /\ timerCalls[e] = 1

\* C2: every inbound event receives a reply: once nothing of the event is
\* pending any more, a reply has been written.
C2_EveryEventReplied == \A e \in Events : Settled(e) => Len(replies[e]) >= 1

\* C3: when the timeout runs before the handler replied, the timeout callback
\* sends the fallback home panel as the reply of the event.
C3_TimeoutSendsFallback ==
  \A e \in Events :
    (timerFiredFirst[e] /\ timer[e] = "done") =>
      \E i \in 1 .. Len(replies[e]) :
        /\ replies[e][i].by = "timeout"
        /\ replies[e][i].panel.kind = "timeout_home"

\* C4: once the handler has sent the reply, the timeout firing later is a
\* no-op: no reply, no marker change, no upstream call.
C4_LateTimeoutIsNoOp ==
  [][\A e \in Events :
       (replies[e] # <<>> /\ TimerFires(e)) =>
         /\ replies' = replies
         /\ ticketTracker' = ticketTracker
         /\ timerCalls' = timerCalls]_vars

C6_BlankNeverCreates ==
  \A e \in Events :
    (IsSubmit(e) /\ (AllSpaces(req[e].email) \/ AllSpaces(req[e].subject))) =>
      /\ bg[e] = "none"
      /\ ~Has(log[e], "bg_start")
      /\ ~Has(log[e], "create_call")
      /\ ~Has(log[e], "notify_call")

\* a whitespace-only email, answered by the handler
C6_Witness ==
  \E e \in Events :
    /\ IsSubmit(e)
    /\ req[e].email = <<" ">>
    /\ pc[e] = "done"
    /\ replies[e] # <<>>

\* C7: a non-empty email that does not have a basic address shape is rejected
\* and never proceeds to ticket creation.
C7_MalformedEmailRejected ==
  \A e \in Events :
    (IsSubmit(e) /\ ~AllSpaces(req[e].email) /\ ~AddressShape(req[e].email)) =>
      /\ bg[e] = "none"
      /\ ~Has(log[e], "create_call")

C9_ValidationReshowsForm ==
  \A e \in Events :
    (IsSubmit(e) /\ ~Accepted(e)) =>
      \A i \in 1 .. Len(replies[e]) :
        replies[e][i].panel.kind \in {"error_form", "recheck_form"}

C11_PendingEventuallyResolved ==
  \A k \in TrackerKeys :
    (ticketTracker[k] = PendingMarker) ~> (ticketTracker[k] \in {DoneMarker, FailedMarker})

\* C12: an event that fails validation leaves the marker map unchanged in
\* every step, the run of its timeout callback included.
C12_RejectedLeavesMarkers ==
  [][\A e \in Events :
       (IsSubmit(e) /\ ~Accepted(e) /\ arrivals' = arrivals) =>
         ticketTracker' = ticketTracker]_vars

\* the background ticket-creation task of the event is scheduled or running
Creating(e) ==
  /\ req[e].component_id = "submit_ticket_button"
  /\ bg[e] \notin {"none", "done"}

\* C13: at most one background ticket-creation task is in flight per email:
\* two events whose creation tasks are in flight at once have different emails.
C13_OneCreationPerEmail ==
  \A e1, e2 \in Slots :
    (e1 # e2 /\ Creating(e1) /\ Creating(e2)) =>
      MarkerKey(req[e1]) # MarkerKey(req[e2])

\* C14: within one event the reply is written before any completion
\* notification (postIntercomNote) of that event's background task, on the
\* create path and on the merge path.
C14_ReplyBeforeNotify ==
  \A e \in Events :
    \A j \in 1 .. Len(log[e]) :
      log[e][j] = "notify_call" => \E i \in 1 .. (j - 1) : log[e][i] = "reply"

Count(seq, x) == Cardinality({i \in 1 .. Len(seq) : seq[i] = x})

\* C15: in a deferred create-ticket event the upstream create call is issued
\* only after the handler attempted its reply, and the completion notifier is
\* called only after the create call resolved, with success or with an error.
C15_ReplyThenCreateThenNotify ==
  \A e \in Events :
    IsSubmit(e) =>
      \A j \in 1 .. Len(log[e]) :
        /\ log[e][j] = "create_call" =>
             \E i \in 1 .. (j - 1) : log[e][i] = "reply_attempt"
        /\ log[e][j] = "notify_call" =>
             \E i \in 1 .. (j - 1) : log[e][i] \in {"create_ok", "create_fail"}

\* the reply was written, the create call threw, the failure was notified
C15_Witness ==
  \E e \in Events :
    /\ IsSubmit(e)
    /\ Has(log[e], "reply")
    /\ Has(log[e], "create_fail")
    /\ Has(log[e], "notify_call")

\* C16: the notification is attempted at most once, its failure is not
\* propagated, and when the background task ends the marker is done exactly
\* when the create call succeeded and failed exactly when it threw, whatever
\* the outcome of the notification.
C16_NotifyFailureKeepsOutcome ==
  \A e \in Events :
    IsSubmit(e) =>
      /\ Count(log[e], "notify_call") <= 1
      /\ Has(log[e], "notify_fail") => bg[e] = "done"
      /\ bg[e] = "done" =>
           /\ Has(log[e], "create_ok") # Has(log[e], "create_fail")
           /\ ticketTracker[Trim(req[e].email)] =
                IF Has(log[e], "create_ok") THEN DoneMarker ELSE FailedMarker

\* the ticket was created, the notification failed, the marker says done
C16_Witness ==
  \E e \in Events :
    /\ IsSubmit(e)
    /\ Has(log[e], "create_ok")
    /\ Has(log[e], "notify_fail")
    /\ ticketTracker[Trim(req[e].email)] = DoneMarker

\* the cursor a run of load-more events works on
Cursor(c) == IF c = "home" THEN homePageState ELSE mergePageState

\* revealedCount before each load-more of the run, and after the last one
Revealed == loads.startIndex \o <<Cursor(loads.cursor).currentOffset>>

\* an upstream call of the event is in flight
UpstreamPending(e) ==
  \/ pc[e] \notin {"idle", "done"}
  \/ timer[e] = "fetching"
  \/ bg[e] \notin {"none", "scheduled", "done"}

\* C17: a list started with a fetch of 20 items and page size 5 has
\* hasMore = TRUE and a first window of exactly 5; the next three load-more
\* events reveal windows of 5, 5 and 5, and the fourth reports hasMore = FALSE
\* with an empty added window.
C17_TwentyItemsPageFive ==
  /\ \A e \in Events :
       (/\ req[e].component_id = "add_to_existing_ticket" /\ pc[e] = "done"
        /\ mergePageState.allTickets = FetchCap) =>
         /\ mergePageState.currentOffset = PageSize
         /\ mergePageState.hasMore
         /\ \A i \in 1 .. Len(replies[e]) :
              replies[e][i].panel = MergeListPanel(PageSize, TRUE)
  /\ (/\ loads.cursor # "none"
      /\ Cursor(loads.cursor).allTickets = FetchCap
      /\ loads.startIndex[1] = PageSize) =>
       /\ \A i \in 1 .. Len(loads.startIndex) :
            Revealed[i + 1] - Revealed[i] = IF i <= 3 THEN PageSize ELSE 0
       /\ Len(loads.startIndex) >= 4 =>
            /\ ~Cursor(loads.cursor).hasMore
            /\ \A e \in Events : \A i \in 1 .. Len(replies[e]) :
                 /\ replies[e][i].panel.shown = FetchCap
                 /\ ~replies[e][i].panel.loadMore

\* add_to_existing_ticket fetched 20 tickets, then four load_more_tickets events
C17_Witness ==
  /\ loads = [cursor |-> "merge", startIndex |-> <<5, 10, 15, 20>>]
  /\ mergePageState.allTickets = FetchCap
  /\ mergePageState.currentOffset = FetchCap
  /\ ~mergePageState.hasMore
  /\ \E e \in Events :
       /\ req[e].component_id = "load_more_tickets"
       /\ Len(replies[e]) = 1
       /\ ~replies[e][1].panel.loadMore

\* C18: in every reachable state of the home cursor and of the merge cursor,
\* currentOffset is at most the number of fetched tickets.
C18_RevealedWithinFetched ==
  /\ homePageState.set => homePageState.currentOffset <= homePageState.allTickets
  /\ mergePageState.set => mergePageState.currentOffset <= mergePageState.allTickets

\* C19: two load-more events on the same cursor, one right after the other,
\* leave currentOffset 5 or 10 above its value before the first of them,
\* never lower and never unchanged.
C19_TwoLoadsAdvance ==
  Len(loads.startIndex) >= 2 =>
    LET start == loads.startIndex[Len(loads.startIndex) - 1]
        final == Cursor(loads.cursor).currentOffset
    IN final \in {start + PageSize, start + 2 * PageSize}

\* C20: a load-more event issues no upstream call and leaves the fetched
\* list unchanged: its handler ends in the step it starts in, with the timeout
\* cleared, and changes of its cursor only currentOffset and hasMore, the
\* latter recomputed on the fetched list.
C20_LoadMoreIsLocal ==
  /\ [](\A e \in Events :
          (pc[e] # "idle" /\ req[e].component_id \in LoadMoreIds) =>
            /\ ~UpstreamPending(e)
            /\ timer[e] = "cleared"
            /\ timerCalls[e] = 0
            /\ bg[e] = "none")
  /\ [][\A e \in Events :
          (arrivals' = arrivals + 1 /\ req'[e].component_id \in LoadMoreIds) =>
            /\ [homePageState' EXCEPT !.currentOffset = homePageState.currentOffset,
                                       !.hasMore = homePageState.hasMore] = homePageState
            /\ [mergePageState' EXCEPT !.currentOffset = mergePageState.currentOffset,
                                        !.hasMore = mergePageState.hasMore] = mergePageState
            /\ homePageState' # homePageState =>
                 homePageState'.hasMore =
                   (homePageState'.currentOffset < homePageState'.allTickets)
            /\ mergePageState' # mergePageState =>
                 mergePageState'.hasMore =
                   (mergePageState'.currentOffset < mergePageState'.allTickets)
            /\ UNCHANGED <<ticketTracker, selectedTicketId>>]_vars

\* a load_more_tickets event moved the merge cursor from 5 to 10 of 20
C20_Witness ==
  /\ loads = [cursor |-> "merge", startIndex |-> <<5>>]
  /\ mergePageState.currentOffset = 10
  /\ mergePageState.allTickets = FetchCap
  /\ \E e \in Events :
       /\ req[e].component_id = "load_more_tickets"
       /\ pc[e] = "done"
       /\ Len(replies[e]) = 1

\* the handler of event e starts in this step, for a request with this component_id
Starts(e, ids) == arrivals' = arrivals + 1 /\ req'[e].component_id \in ids

\* C21: a load-more event arriving when its cursor does not exist is answered
\* with the "session expired" panel, and creates or changes no cursor.
C21_NoCursorSessionExpired ==
  [][\A e \in Events :
       (\/ Starts(e, {"load_more_tickets"}) /\ ~mergePageState.set
        \/ Starts(e, {"load_more_home_tickets"}) /\ ~homePageState.set) =>
         /\ replies'[e] = <<[by |-> "sendResponse", code |-> 200, panel |-> SessionExpiredPanel]>>
         /\ pc'[e] = "done"
         /\ UNCHANGED <<homePageState, mergePageState>>]_vars

\* a load_more_tickets event answered "session expired" while a home cursor exists
C21_Witness ==
  \E e \in Events :
    /\ req[e].component_id = "load_more_tickets"
    /\ ~mergePageState.set
    /\ homePageState.set
    /\ Len(replies[e]) = 1
    /\ replies[e][1].panel = SessionExpiredPanel

\* C22: a load-more event advances, and is shown tickets from, a cursor only
\* when the cursor was created for the event's own session email.
C22_OwnCursorOnly ==
  [][\A e \in Events :
       /\ (/\ Starts(e, {"load_more_tickets"}) /\ mergePageState.set
           /\ mergePageState.customerEmail # req'[e].contactEmail) =>
            /\ mergePageState' = mergePageState
            /\ \A i \in 1 .. Len(replies'[e]) : replies'[e][i].panel.kind # "merge_list"
       /\ (/\ Starts(e, {"load_more_home_tickets"}) /\ homePageState.set
           /\ homePageState.customerEmail # req'[e].contactEmail) =>
            /\ homePageState' = homePageState
            /\ \A i \in 1 .. Len(replies'[e]) : replies'[e][i].panel.kind # "home"]_vars

\* axios calls made so far by the call of fetchWithRetry
Calls == Len(fw.tried) + IF fw.state = "calling" THEN 1 ELSE 0

\* C23: the retry helper makes no further attempt after a 4xx response: the
\* 4xx is the last attempt and is what the helper throws.
C23_NoRetryAfter4xx ==
  \A i \in 1 .. Len(fw.tried) :
    fw.tried[i] = "404" =>
      /\ i = Len(fw.tried)
      /\ fw.state = "thrown"
      /\ fw.error = "404"

\* C24: when k attempts fail (k < 4) and the next one succeeds, the helper
\* returns that response after exactly k retries (k + 1 attempts, k delays),
\* and no attempt follows the first success.
C24_SuccessAfterKRetries ==
  /\ \A i \in 1 .. Len(fw.tried) :
       fw.tried[i] = "ok" => (i = Len(fw.tried) /\ fw.state = "returned")
  /\ fw.state = "returned" =>
       /\ fw.tried[Len(fw.tried)] = "ok"
       /\ Calls = Len(fw.tried)
       /\ Len(fw.delays) = Len(fw.tried) - 1
       /\ fw.attempts = Len(fw.tried) - 1
       /\ Len(fw.tried) - 1 <= Retries

\* two 503 responses, then the success response
C24_Witness ==
  /\ fw.state = "returned"
  /\ fw.tried = <<"503", "503", "ok">>
  /\ Len(fw.delays) = 2

\* C25: the helper always terminates: it makes at most 4 attempts, it throws
\* the error of the last attempt when all of them fail, and it never returns
\* undefined.
C25_RetryTerminates ==
  /\ [](/\ Calls <= Retries + 1
        /\ fw.state # "undefined"
        /\ fw.state = "thrown" =>
             /\ Len(fw.tried) = Retries + 1
             /\ \A i \in 1 .. Len(fw.tried) : fw.tried[i] # "ok"
             /\ fw.error = fw.tried[Len(fw.tried)])
  /\ (fw.state # "idle") ~> (fw.state \in {"returned", "thrown"})

\* four failed attempts, the last error thrown
C25_Witness ==
  /\ fw.state = "thrown"
  /\ fw.tried = <<"timeout", "503", "503", "timeout">>
  /\ fw.error = "timeout"

\* min(baseDelay * 2^i, 10000), for the delay before retry i = 0, 1, 2
BaseDelay(i) == Min(InitialDelay * 2 ^ i, DelayCap)

\* C26: the delay waited before retry i equals min(baseDelay * 2^i, 10000)
\* scaled by one jitter factor in [0.8, 1.2]; earlier jitter does not
\* accumulate.
C26_DelayIsJitteredBackoff ==
  \A i \in 1 .. Len(fw.delays) :
    /\ 10 * fw.delays[i] >= 8 * BaseDelay(i - 1)
    /\ 10 * fw.delays[i] <= 12 * BaseDelay(i - 1)

\* C27: every upstream call is bounded by a per-call timeout, so with an
\* upstream that does not respond no handler, timeout callback or background
\* task stays suspended at a call for ever.
C27_NoCallPendingForever ==
  \A e \in Events : UpstreamPending(e) ~> ~UpstreamPending(e)

\* C28: an event with an unrecognized or missing component_id is answered at
\* once with the default home panel, never an error panel; its handling
\* starts no background task and changes no cursor and no marker.
C28_UnknownGetsDefaultPanel ==
  /\ [](\A e \in Events :
          (pc[e] # "idle" /\ req[e].component_id \in UnknownIds) =>
            /\ replies[e] = <<[by |-> "direct", code |-> 200, panel |-> DefaultPanel]>>
            /\ pc[e] = "done"
            /\ bg[e] = "none"
            /\ ~Has(log[e], "bg_start"))
  /\ [][\A e \in Events :
          (\/ Starts(e, UnknownIds)
           \/ (pc[e] # "idle" /\ req[e].component_id \in UnknownIds /\ arrivals' = arrivals)) =>
            UNCHANGED <<homePageState, mergePageState, ticketTracker, selectedTicketId>>]_vars

\* a request without component_id, answered, its timeout callback run to the end
C28_Witness ==
  \E e \in Events :
    /\ req[e].component_id = "undefined"
    /\ Len(replies[e]) = 1
    /\ replies[e][1].panel = DefaultPanel
    /\ timer[e] = "done"
    /\ homePageState.set

\* C29: in a start-create event whose schema fetch failed, the reply of the
\* event is the error panel with the retry action, whether the failure came
\* before or after the timeout ran.
C29_SchemaFailureGetsRetryPanel ==
  \A e \in Events :
    (req[e].component_id = "create_ticket" /\ Has(log[e], "schema_failed")) =>
      /\ Len(replies[e]) = 1
      /\ replies[e][1].panel = SchemaErrorPanel
      /\ replies[e][1].panel.retry = "retry_button"

\* the schema fetch failed after the timeout callback had run to its end
C29_Witness ==
  \E e \in Events :
    /\ req[e].component_id = "create_ticket"
    /\ timerFiredFirst[e]
    /\ timer[e] = "done"
    /\ Has(log[e], "schema_failed")
    /\ Len(replies[e]) = 1

\* C30: no single event causes a note to be added to a ticket. A note is
\* posted only in a merge_ticket event, to the ticket T that app.locals holds
\* at that time; app.locals holds T only because an earlier select_ticket_T
\* event stored it; and a select_ticket_ event replies at once and makes no
\* upstream call of any kind.
C30_NoteNeedsSelectThenConfirm ==
  /\ [](\A e \in Events :
          Has(log[e], "note_call") =>
            /\ req[e].component_id = "merge_ticket"
            /\ loc[e].ticketId \in {"1", "2"}
            /\ loc[e].ticketId = selectedTicketId)
  /\ [](\A e \in Events :
          (pc[e] # "idle" /\ req[e].component_id \in SelectIds) =>
            /\ log[e] = <<"reply_attempt", "reply">>
            /\ bg[e] = "none"
            /\ ~UpstreamPending(e))
  /\ [][\A e \in Events :
          selectedTicketId' # selectedTicketId =>
            /\ Starts(e, SelectIds)
            /\ selectedTicketId' = TicketOf(req'[e].component_id)]_vars

\* a merge_ticket event handled after select_ticket_2 has posted its note to
\* ticket 2
C30_Witness ==
  \E e \in Events :
    /\ req[e].component_id = "merge_ticket"
    /\ arrivals = 2
    /\ selectedTicketId = "2"
    /\ loc[e].ticketId = "2"
    /\ Has(log[e], "note_ok")

CancelIds == {"cancel", "cancel_merge", "back_to_home"}

\* C31: a cancel / back event with a session email is answered from the
\* cached home cursor, with no upstream call, when the cursor is keyed by that
\* email, and otherwise starts one list fetch; once nothing of the event is
\* pending it has been answered with exactly one home panel and the handler's
\* fetch was the only upstream call.
C31_CancelRerendersHome ==
  /\ [][\A e \in Events :
          (Starts(e, CancelIds) /\ req'[e].contactEmail # Empty) =>
            IF CachedHome(req'[e].contactEmail)
            THEN /\ pc'[e] = "done"
                 /\ replies'[e] = <<[by |-> "sendResponse", code |-> 200,
                                     panel |-> CachedHomePanel]>>
                 /\ homePageState' = homePageState
            ELSE pc'[e] \in {"h_recent", "c_home"}]_vars
  /\ [](\A e \in Events :
          (/\ req[e].component_id \in CancelIds
           /\ req[e].contactEmail # Empty
           /\ Settled(e)) =>
            /\ Len(replies[e]) = 1
            /\ replies[e][1].panel.kind = "home"
            /\ timerCalls[e] = 0)

\* panels that report a failure
ErrorKinds == {"error_loading", "exception", "list_error", "schema_error", "generic_error"}

\* the number of tickets a panel lists
Listed(panel) ==
  IF panel.kind \in {"home", "merge_list", "timeout_home"} THEN panel.shown ELSE 0

\* C32: with no session email, initialize, add_to_existing_ticket and the
\* cancel / back events answer with a panel that lists no ticket and is not an
\* error panel, whatever the upstream list call returns.
C32_NoEmailDegradesToEmpty ==
  /\ \A i \in Slots :
       (canvas[i].state = "done" /\ canvas[i].customerEmail = Empty) =>
         /\ Listed(canvas[i].reply[1]) = 0
         /\ canvas[i].reply[1].kind \notin ErrorKinds
  /\ \A e \in Events :
       (/\ req[e].component_id \in CancelIds \cup {"add_to_existing_ticket"}
        /\ req[e].contactEmail = Empty
        /\ pc[e] = "done") =>
         /\ Len(replies[e]) = 1
         /\ Listed(replies[e][1].panel) = 0
         /\ replies[e][1].panel.kind \notin ErrorKinds

\* an initialize request for key k is received in this step
Initializes(k) ==
  \E i \in Slots :
    /\ canvas[i].state = "idle"
    /\ canvas'[i].state = "fetching"
    /\ canvas'[i].customerEmail = k

\* C33 as stated: a marker, once in the map, is never removed from it.
C33_Original ==
  [][\A k \in TrackerKeys : ticketTracker[k].present => ticketTracker'[k].present]_vars

\* C33: a marker is removed from the map only by an initialize request for
\* its own key, and only while it is in progress; every other change of a
\* marker replaces it with another marker for the same key.
C33_MarkerRemovedOnlyByInitialize ==
  [][\A k \in TrackerKeys :
       (ticketTracker[k].present /\ ~ticketTracker'[k].present) =>
         /\ ticketTracker[k].inProgress
         /\ Initializes(k)]_vars

\* the marker written for b@y by a submit event is gone after an initialize
\* request for b@y
C33_Witness ==
  \E e \in Events, i \in Slots :
    /\ Has(log[e], "marker_pending")
    /\ MarkerKey(req[e]) = EmailB
    /\ canvas[i].state # "idle"
    /\ canvas[i].customerEmail = EmailB
    /\ ~ticketTracker[EmailB].present

\* a merge_ticket event that passed the missing-id check
MergeAccepted(e) == req[e].component_id = "merge_ticket" /\ bg[e] # "none"

C35_CursorHoldsOwnTickets ==
  \A c \in {"home", "merge"} :
    (/\ Cursor(c).set
     /\ Cursor(c).allTickets > 0
     /\ Cursor(c).customerEmail # Empty
     /\ Cursor(c).fetchedFor # Empty) =>
      Cursor(c).fetchedFor = Cursor(c).customerEmail

\* C36: the note of a merge_ticket event goes to the ticket that the event's
\* own session selected last, also when select_ticket_ events of another
\* session were handled after that selection.
C36_NoteGoesToOwnSelection ==
  \A e \in Events :
    (/\ MergeAccepted(e)
     /\ Has(log[e], "note_call")
     /\ chosen[req[e].contactEmail] # "none") =>
      loc[e].ticketId = chosen[req[e].contactEmail]

\* C37: whenever no list call is pending, a cursor with hasMore = TRUE holds
\* at least one ticket beyond currentOffset; this includes the states after a
\* list call that failed or returned no ticket.
C37_HasMoreMeansUnrevealed ==
  (\A e \in Events : pc[e] \notin {"m_list", "c_home", "s_home"}) =>
    \A c \in {"home", "merge"} :
      (Cursor(c).set /\ Cursor(c).hasMore) =>
        Cursor(c).currentOffset < Cursor(c).allTickets

\* C38: an initialize request for email k removes the marker of k exactly
\* when that marker is in progress; a completed or failed marker of k and the
\* markers of all other keys are left as they are.
C38_InitializeClearsOnlyPending ==
  [][\A k \in InitializeEmails :
       Initializes(k) =>
         \A key \in TrackerKeys :
           ticketTracker'[key] =
             IF key = k /\ ticketTracker[key].present /\ ticketTracker[key].inProgress
             THEN NoMarker
             ELSE ticketTracker[key]]_vars

\* the pending marker the timeout callback wrote for a@x is gone after an
\* initialize request for a@x, while the marker of b@y is still in the map
C38_Witness ==
  \E e \in Events, i \in Slots :
    /\ req[e].component_id = "submit_ticket_button"
    /\ timerCalls[e] = 1
    /\ canvas[i].state # "idle"
    /\ canvas[i].customerEmail = EmailA
    /\ ~ticketTracker[EmailA].present
    /\ ticketTracker[EmailB].present

\* C39: in the background ticket-creation task a failed conversation fetch,
\* a failed formatting or a failed attachment download never prevents the
\* create call: the transcript helper never throws and, when the fetch or the
\* formatting failed, resolves with the ticket data it was given; a task that
\* got past its transcript steps has issued the create call, and every task
\* that started issues it.
C39_TranscriptFailureKeepsCreate ==
  /\ [](\A in \in TranscriptInputs :
          /\ ~AddConversationTranscriptToTicket(in).threw
          /\ (in.conversation = "null" \/ ~in.formatOk) =>
               AddConversationTranscriptToTicket(in).ticketData = "ticketData"
          /\ (in.conversation = "c1" /\ in.formatOk /\ ~in.downloadOk) =>
               /\ AddConversationTranscriptToTicket(in).ticketData = "updatedTicketData"
               /\ AddConversationTranscriptToTicket(in).attachments = 0)
  /\ [](\A e \in Events :
          (/\ req[e].component_id = "submit_ticket_button"
           /\ bg[e] \in {"create", "note_ok", "note_fail", "done"}) =>
            Has(log[e], "create_call"))
  /\ \A e \in Events :
       (req[e].component_id = "submit_ticket_button" /\ Has(log[e], "bg_start"))
         ~> Has(log[e], "create_call")

\* a task whose conversation fetch failed has created the ticket
C39_Witness ==
  \E e \in Events :
    /\ req[e].component_id = "submit_ticket_button"
    /\ Has(log[e], "conversation_fail")
    /\ Has(log[e], "create_ok")

\* C40: downloadFile makes at most two attempts, the first for the URL with
\* "&amp;" replaced by "&" and the second for that URL cut before its first
\* "?"; it returns the body of the first attempt that succeeded, makes no
\* attempt after a success, and returns null, never throwing, when both
\* attempts failed.
C40_DownloadTwoAttempts ==
  /\ Len(download.tried) <= 2
  /\ download.state # "thrown"
  /\ download.state # "idle" =>
       /\ download.tried[1] = CleanUrl(download.url)
       /\ \A i \in 1 .. Len(download.tried[1]) : download.tried[1][i] # "&amp;"
  /\ Len(download.tried) = 2 =>
       /\ download.outcomes[1] = "fail"
       /\ \A i \in 1 .. Len(download.tried[2]) : download.tried[2][i] # "?"
       /\ Len(download.tried[2]) <= Len(download.tried[1])
       /\ SubSeq(download.tried[1], 1, Len(download.tried[2])) = download.tried[2]
       /\ Len(download.tried[2]) < Len(download.tried[1]) =>
            download.tried[1][Len(download.tried[2]) + 1] = "?"
  /\ download.state = "returned" =>
       /\ Len(download.outcomes) = Len(download.tried)
       /\ \A i \in 1 .. (Len(download.outcomes) - 1) : download.outcomes[i] = "fail"
       /\ download.result =
            IF download.outcomes[Len(download.outcomes)] = "fail"
            THEN "null"
            ELSE download.outcomes[Len(download.outcomes)]

\* both attempts failed, the second one for the URL without its query string
C40_Witness ==
  /\ download.state = "returned"
  /\ download.url = <<"h", "?", "a", "&amp;", "b">>
  /\ download.tried = <<(<<"h", "?", "a", "&", "b">>), (<<"h">>)>>
  /\ download.outcomes = <<"fail", "fail">>
  /\ download.result = "null"

====
